---- MODULE Spec2Model ----
(***************************************************************************)
(* State-machine model of the timeline DateSelector and its MonthSelector  *)
(* popup (src/src/components/DateSelector.tsx, lines 298-729), and of the  *)
(* grid DateSelector (lines 1-296).  One of the two is the mounted widget: *)
(* GridSpec mounts the grid, AppSpec either, every other specification     *)
(* the timeline.                                                           *)
(*                                                                         *)
(* Modelling conventions                                                   *)
(*  - A Date is a record [year, month, day] (month 0..11, as getMonth());  *)
(*    only getFullYear(), getMonth(), getDate() and the ordering of the    *)
(*    time values are read by the component, so the time of day is left    *)
(*    out.  Dates are ordered by TimeValue, the day number since           *)
(*    1970-01-01, as the < and > of two Date objects order them.           *)
(*  - The pointer is sampled in whole pixels: offset = e.clientX-rect.left *)
(*    (or clientY-rect.top) and rectWidth = rect.width (rect.height),      *)
(*    BarLength pixels but in TickSpec.  ratio is RatioNum(offset) /       *)
(*    rectWidth.  The year index of line 520 is computed as the code       *)
(*    computes it, on doubles: the quotient and the product are rounded    *)
(*    to 53 bits, and the floor of the product can be one less than the    *)
(*    floor of the exact product (22 years, 15 pixels of 22).  The month   *)
(*    of lines 524-528 is computed exactly with integer division; the      *)
(*    rounding of the doubles can give the month before at a pointer       *)
(*    sample that is exactly a month boundary, the range and the order of  *)
(*    the months being the same.                                           *)
(*  - React re-renders between two DOM events, so that every handler       *)
(*    closes over the state left by the previous event.  The callback      *)
(*    passed to setTimeout keeps the isPopupHovered of the render that     *)
(*    scheduled it (line 551 reads the closure, not the current state).    *)
(*  - Handlers are delivered in any order the rendered tree allows: the    *)
(*    popup's handlers only exist while the popup is rendered (line 665).  *)
(*    The bar container has no onMouseEnter: a mouseleave can follow a     *)
(*    mouseleave with no mousemove between them, the pointer having come   *)
(*    back over the bar without moving (the page scrolled or was laid out  *)
(*    again under a resting pointer).                                      *)
(*  - Time is abstract: a pending timer may fire at any later step.        *)
(*  - clicked and emitted record the input and the output of the last      *)
(*    step: the month button clicked and the onChange calls made.  The     *)
(*    timeline's value prop belongs to the host, which changes it only in  *)
(*    its onChange callback (App.tsx hands setSelectedDate as onChange);   *)
(*    the timeline reads it only to highlight the selected year and        *)
(*    month, and it is not part of the state.                              *)
(*  - The grid compares dates that may carry a time of day (minDate,       *)
(*    maxDate): such a date has a field hours, and TimeValueHours orders   *)
(*    the instants.  The grid's value prop is part of the state: the cell  *)
(*    list does not depend on it, but Clear is rendered only while it is   *)
(*    set; the host sets it in its onChange callback (README: setDate).    *)
(*    The grid's navigation is unbounded in the code; the model keeps the  *)
(*    visible year within ViewYears.                                       *)
(*  - Ranges with startDate after endDate are not enumerated by Init;      *)
(*    DegenerateInit enumerates one.                                       *)
(*  - mounted tells whether the timeline is mounted and listeners counts   *)
(*    the mousedown listeners it has on the document; LifecycleSpec adds   *)
(*    the unmount to Spec.  A timer is the browser's, and outlives the     *)
(*    component unless it is cleared; React discards a state update made   *)
(*    after the unmount.  hoveredMonth is the local state of the rendered  *)
(*    MonthSelector, lost when the popup is closed; PanelSpec moves the    *)
(*    pointer over the month buttons.  LabelSpec renders ranges of ten     *)
(*    years and more.                                                      *)
(***************************************************************************)
EXTENDS Integers, Sequences, FiniteSets

(* ----------------------------- bounds --------------------------------- *)

\* rect.width (rect.height when vertical) of the bar container, in pixels.
BarLength == 12

\* How far, in pixels, a sampled pointer may lie before or past the bar.
Overshoot == 1

\* The years after 2024 the grid may be navigated to.
ViewYearSpan == 1

\* Close timers that may be pending at the same time.
MaxTimers == 2

\* The largest year count the coordinate mapping is evaluated for.
MaxYearCount == 4

\* The length of the bar, in pixels, of the ranges of TickRanges.
TickBarLength == 22

(* ------------------------ JavaScript values --------------------------- *)

\* null (useState<number | null>(null), useRef(null)).
NULL == -1

\* undefined: the value of an array read outside 0..length-1.
UNDEFINED == -2

\* NaN: the value of Infinity / Infinity.
NAN == -3

\* null where a Date is expected (value, a blank cell, onChange(null)).
NullDate == [null |-> TRUE]

\* undefined where a Date is expected (an optional Date prop not given).
UndefinedDate == [undefined |-> TRUE]

Max(a, b) == IF a >= b THEN a ELSE b

Min(a, b) == IF a <= b THEN a ELSE b

RECURSIVE Reverse(_)
\* Array.prototype.reverse.
Reverse(s) == IF s = <<>> THEN <<>> ELSE Append(Reverse(Tail(s)), Head(s))

(* ------------------------------ Date ---------------------------------- *)

IsLeapYear(y) == (y % 4 = 0 /\ y % 100 # 0) \/ y % 400 = 0

\* Mutant of NewDate: the month wrapped, but not carried into the year.
NewDateNoCarry(y, m, d) == [year |-> y, month |-> m % 12, day |-> d]

\* new Date(y, m, d): the month is carried into the year (month 12 is
\* January of the next year, month -1 December of the previous one).
NewDate(y, m, d) == [year |-> y + (m \div 12), month |-> m % 12, day |-> d]

\* Leap days in the years 1..y-1.
LeapsBefore(y) == ((y - 1) \div 4) - ((y - 1) \div 100) + ((y - 1) \div 400)

\* Days of a common year that precede the first day of each month.
CumulativeDays == <<0, 31, 59, 90, 120, 151, 181, 212, 243, 273, 304, 334>>

\* Days of year y that precede the first day of month m.
DaysBeforeMonth(y, m) ==
    CumulativeDays[m + 1] + (IF m >= 2 /\ IsLeapYear(y) THEN 1 ELSE 0)

\* Date.prototype.valueOf, in days since 1970-01-01: the order of < and >.
TimeValue(date) ==
    365 * (date.year - 1970) + (LeapsBefore(date.year) - LeapsBefore(1970))
      + DaysBeforeMonth(date.year, date.month) + (date.day - 1)

(* --------------------------- the inputs ------------------------------- *)

\* The <<startDate, endDate>> props tried: ranges of two, three and one
\* year, with days other than the first of the month.
DateRanges ==
    { << [year |-> 2020, month |-> 0, day |-> 1],
         [year |-> 2021, month |-> 5, day |-> 1] >>,
      << [year |-> 2020, month |-> 1, day |-> 15],
         [year |-> 2022, month |-> 10, day |-> 20] >>,
      << [year |-> 2021, month |-> 2, day |-> 15],
         [year |-> 2021, month |-> 5, day |-> 30] >> }

\* The <<startDate, endDate>> props of the edge cases: a range of no year
\* (startDate's year after endDate's) and a range of exactly one year.
DegenerateRanges ==
    { << [year |-> 2022, month |-> 2, day |-> 10],
         [year |-> 2021, month |-> 5, day |-> 30] >>,
      << [year |-> 2021, month |-> 2, day |-> 15],
         [year |-> 2021, month |-> 5, day |-> 30] >> }

\* The <<startDate, endDate>> props of the year labels: ranges of ten,
\* eleven and twelve years.
LabelRanges ==
    { << [year |-> 2010, month |-> 2, day |-> 15],
         [year |-> 2019, month |-> 5, day |-> 30] >>,
      << [year |-> 2010, month |-> 2, day |-> 15],
         [year |-> 2020, month |-> 5, day |-> 30] >>,
      << [year |-> 2009, month |-> 0, day |-> 1],
         [year |-> 2020, month |-> 11, day |-> 31] >> }

\* The <<startDate, endDate>> props of the year ticks: ranges of 22 and
\* of 23 years.
TickRanges ==
    { << [year |-> 2000, month |-> 0, day |-> 1],
         [year |-> 2021, month |-> 11, day |-> 31] >>,
      << [year |-> 2000, month |-> 0, day |-> 1],
         [year |-> 2022, month |-> 11, day |-> 31] >> }

\* The pointer samples on the bar of TickBarLength pixels.
TickOffsets == 0..TickBarLength

\* Pointer samples, as offsets from the start of the bar.
Offsets == (0 - Overshoot)..(BarLength + Overshoot)

\* The pointer samples of the event machine: before the bar, at its start,
\* its middle and its end, and past it.  (MoveSpec tries every offset.)
SampledOffsets ==
    {0 - Overshoot, 0, BarLength \div 2, BarLength, BarLength + Overshoot}

Months == 0..11

(* ------------------------------ state --------------------------------- *)

VARIABLES
    startDate,        \* prop startDate
    endDate,          \* prop endDate, after the default of line 476
    reversed,         \* prop reversed
    orientation,      \* prop orientation
    rectWidth,        \* rect.width (rect.height when vertical), line 510
    hoverYear,        \* useState, line 479
    hoverMonth,       \* useState, line 480
    hoverPosition,    \* useState, line 481
    isPopupHovered,   \* useState, line 482
    closeTimeoutRef,  \* closeTimeoutRef.current, line 478: a timer id or NULL
    timers,           \* the window's pending timeouts of this instance
    emitted,          \* the arguments of the onChange calls of the last step
    clicked           \* the month button clicked in the last step, or NULL

\* The life cycle of the timeline and the local state of its MonthSelector.
VARIABLES
    mounted,          \* the timeline is mounted: its DOM handlers exist
    listeners,        \* the document's mousedown listeners of this instance
    hoveredMonth      \* useState of the MonthSelector, line 348

\* The grid variant (lines 1-296).
VARIABLES
    value,            \* prop value of the grid: the host's selected date
    minDate,          \* prop minDate, or UNDEFINED
    maxDate,          \* prop maxDate, or UNDEFINED
    disabled,         \* prop disabled
    firstDayOfWeek,   \* prop firstDayOfWeek
    viewDate,         \* useState, line 63; NullDate while no grid is mounted
    activated         \* the day cell activated in the last step, or NullDate

props == <<startDate, endDate, reversed, orientation, rectWidth>>

hover == <<hoverYear, hoverMonth, hoverPosition, isPopupHovered>>

gridProps == <<minDate, maxDate, disabled, firstDayOfWeek>>

grid == <<value, minDate, maxDate, disabled, firstDayOfWeek, viewDate,
          activated>>

lifecycle == <<mounted, listeners>>

timeline == <<startDate, endDate, reversed, orientation, rectWidth,
              hoverYear, hoverMonth, hoverPosition, isPopupHovered, closeTimeoutRef,
              timers, clicked, mounted, listeners, hoveredMonth>>

vars == <<startDate, endDate, reversed, orientation, rectWidth,
          hoverYear, hoverMonth, hoverPosition, isPopupHovered, closeTimeoutRef, timers,
          emitted, clicked, value, minDate, maxDate, disabled,
          firstDayOfWeek, viewDate, activated, mounted, listeners,
          hoveredMonth>>

(* ------------------------- derived values ----------------------------- *)

\* The years memo before the reversal: startYear..endYear, ascending.
YearRange(sd, ed) == [k \in 1..(ed.year - sd.year + 1) |-> sd.year + k - 1]

\* Mutant of YearsOf: the reversed prop ignored.
YearsOfNeverReversed(sd, ed, rev) == YearRange(sd, ed)

\* The years memo for given props.
YearsOf(sd, ed, rev) ==
    IF rev THEN Reverse(YearRange(sd, ed)) ELSE YearRange(sd, ed)

\* The years memo of the rendered component.
years == YearsOf(startDate, endDate, reversed)

\* array[index] for a 0-based index; undefined outside the array.
ArrayGet(array, index) ==
    IF index + 1 \in DOMAIN array THEN array[index + 1] ELSE UNDEFINED

\* The year tick marks of the bar for the years memo `ys`: one for each
\* year, at (index / years.length) * 100 percent of the bar, kept as the
\* fraction num / den.
YearTicksOf(ys) ==
    [k \in 1..Len(ys) |->
        [year |-> ys[k],
         position |-> [num |-> (k - 1) * 100, den |-> Len(ys)]]]

\* The year tick marks of the rendered bar.
yearTicks == YearTicksOf(years)

\* The most years that all get a label (years.length <= 10, line 684).
MaxLabelledYears == 10

\* Mutant of YearLabelsOf: the first and the last year alone, whatever the
\* year count.
YearLabelsFirstAndLast(ys) ==
    << [year |-> ys[1]], [year |-> ys[Len(ys)]] >>

\* The year labels rendered for the years memo `ys`: every year with its
\* position (index / years.length) * 100 percent, kept as the fraction
\* num / den, or the first and the last year alone.
YearLabelsOf(ys) ==
    IF Len(ys) <= MaxLabelledYears
    THEN [k \in 1..Len(ys) |->
            [year |-> ys[k],
             position |-> [num |-> (k - 1) * 100, den |-> Len(ys)]]]
    ELSE << [year |-> ys[1]], [year |-> ys[Len(ys)]] >>

\* The year labels of the rendered component.
yearLabels == YearLabelsOf(years)

(* ------------------- the arithmetic of numbers ------------------------ *)

\* A JavaScript number is an IEEE 754 double: a significand of 53 bits.
Precision == 53

\* A positive double is [bits, exp]: the sequence of the Precision bits of
\* its significand, the first one 1, and the exponent of its last bit; its
\* value is the integer the bits spell times 2^exp.  The operators below
\* work on sequences of bits and on small integers only.

RECURSIVE BitsToInt(_)
\* The integer a short sequence of bits spells.
BitsToInt(bits) ==
    IF bits = <<>> THEN 0
    ELSE 2 * BitsToInt(SubSeq(bits, 1, Len(bits) - 1)) + bits[Len(bits)]

\* The `count` low bits of the natural number c.
IntBits(c, count) == [j \in 1..count |-> (c \div 2^(count - j)) % 2]

\* `bits` without its leading zeros.
Normalized(bits) ==
    LET ones == {j \in 1..Len(bits) : bits[j] = 1}
    IN  IF ones = {} THEN <<>>
        ELSE SubSeq(bits, CHOOSE j \in ones : \A k \in ones : j <= k,
                    Len(bits))

\* The bits of the successor of the integer `bits` spells.
Increment(bits) ==
    LET zeros == {j \in 1..Len(bits) : bits[j] = 0}
    IN  IF zeros = {} THEN <<1>> \o [j \in 1..Len(bits) |-> 0]
        ELSE LET last == CHOOSE j \in zeros : \A k \in zeros : j >= k
             IN  [j \in 1..Len(bits) |->
                    IF j < last THEN bits[j] ELSE IF j = last THEN 1 ELSE 0]

\* Round to nearest, ties to even: the double nearest to the value of
\* `bits` (first bit 1) times 2^exp, plus a positive amount below the last
\* bit when `sticky`.
RoundToDouble(bits, exp, sticky) ==
    LET len == Len(bits)
    IN  IF len <= Precision
        THEN [bits |-> bits \o [j \in 1..(Precision - len) |-> 0],
              exp |-> exp - (Precision - len)]
        ELSE LET keep == SubSeq(bits, 1, Precision)
                 rest == sticky \/ \E j \in (Precision + 2)..len : bits[j] = 1
                 up == /\ bits[Precision + 1] = 1
                       /\ rest \/ keep[Precision] = 1
                 next == Increment(keep)
             IN  IF ~up
                 THEN [bits |-> keep, exp |-> exp + (len - Precision)]
                 ELSE IF Len(next) > Precision
                 THEN [bits |-> SubSeq(next, 1, Precision),
                       exp |-> exp + (len - Precision) + 1]
                 ELSE [bits |-> next, exp |-> exp + (len - Precision)]

RECURSIVE LeadingZeros(_, _)
\* The number of 0 digits after the point of the binary expansion of r / w
\* before its first 1, for 0 < r < w.
LeadingZeros(r, w) == IF 2 * r >= w THEN 0 ELSE 1 + LeadingZeros(2 * r, w)

RECURSIVE PowerOfTwoMod(_, _)
\* 2^e modulo w, by repeated squaring.
PowerOfTwoMod(e, w) ==
    IF e = 0 THEN 1 % w
    ELSE LET half == PowerOfTwoMod(e \div 2, w)
         IN  (((half * half) % w) * (IF e % 2 = 1 THEN 2 ELSE 1)) % w

\* What the long division of r by w has left after `count` binary digits.
QuotientRest(r, w, count) == (r * PowerOfTwoMod(count, w)) % w

\* The first `count` digits after the point of the binary expansion of
\* r / w, for 0 <= r < w.
QuotientBits(r, w, count) ==
    [j \in 1..count |-> (2 * QuotientRest(r, w, j - 1)) \div w]

\* k / w, for integers 0 < k < w.
Quotient(k, w) ==
    LET zeros == LeadingZeros(k, w)
        first == k * 2^zeros
    IN  RoundToDouble(QuotientBits(first, w, Precision + 1),
                      0 - (zeros + Precision + 1),
                      QuotientRest(first, w, Precision + 1) # 0)

\* The integer `bits` spells as limbs of 11 bits, the lowest first.
Limbs(bits) ==
    [i \in 1..((Len(bits) + 10) \div 11) |->
        BitsToInt(SubSeq(bits, Max(1, Len(bits) - 11 * i + 1),
                         Len(bits) - 11 * (i - 1)))]

RECURSIVE TimesLimbs(_, _, _)
\* The limbs, the lowest first, of the integer of `limbs` times n, plus
\* carry, for n < 2^11.
TimesLimbs(limbs, n, carry) ==
    IF limbs = <<>> THEN <<carry>>
    ELSE <<(limbs[1] * n + carry) % 2048>>
           \o TimesLimbs(Tail(limbs), n, (limbs[1] * n + carry) \div 2048)

RECURSIVE LimbBits(_)
\* The bits of the integer of `limbs`, 11 for each limb.
LimbBits(limbs) ==
    IF limbs = <<>> THEN <<>>
    ELSE LimbBits(Tail(limbs)) \o IntBits(limbs[1], 11)

\* x * n, for a double x and an integer n of 1..2047.
Times(x, n) ==
    RoundToDouble(Normalized(LimbBits(TimesLimbs(Limbs(x.bits), n, 0))),
                  x.exp, FALSE)

\* Math.floor(x), for a double x less than 2^Precision.
Floor(x) ==
    IF Precision + x.exp <= 0 THEN 0
    ELSE BitsToInt(SubSeq(x.bits, 1, Precision + x.exp))

\* Math.floor((k / w) * n), for integers 0 <= k <= w and n >= 0: the
\* quotient and the product are rounded to doubles.
FloorOfRatioTimes(k, w, n) ==
    IF k = 0 \/ n = 0 THEN 0
    ELSE IF k = w THEN n
    ELSE Floor(Times(Quotient(k, w), n))

(* -------------------- the coordinate mapping -------------------------- *)

\* Mutant of RatioNum: Math.max(0, ...) left out.
RatioNumNoLowerClamp(offset) == Min(rectWidth, offset)

\* ratio * rectWidth, for ratio as left by the clamp to [0, 1].
RatioNum(offset) == Max(0, Min(rectWidth, offset))

\* Mutant of YearIndex: Math.round in place of Math.floor.
YearIndexRounded(offset, n) ==
    (2 * RatioNum(offset) * n + rectWidth) \div (2 * rectWidth)

\* The lengths of the bar and the year counts the year index is computed
\* for.
RectWidths == {BarLength, TickBarLength}

YearCounts ==
    (0..MaxYearCount)
      \cup {Max(0, range[2].year - range[1].year + 1) :
               range \in DateRanges \cup DegenerateRanges \cup LabelRanges
                            \cup TickRanges}

\* Math.floor(ratio * years.length) for ratio = k / w, tabulated.
YearIndexTable ==
    [w \in RectWidths |->
        [k \in 0..w |->
            [n \in YearCounts |-> FloorOfRatioTimes(k, w, n)]]]

\* yearIndex = Math.floor(ratio * years.length), for n = years.length.  (A
\* ratio outside 0..1, which the clamp of line 519 rules out, has the floor
\* of the exact product.)
YearIndex(offset, n) ==
    IF RatioNum(offset) \in 0..rectWidth
    THEN YearIndexTable[rectWidth][RatioNum(offset)][n]
    ELSE (RatioNum(offset) * n) \div rectWidth

\* clampedIndex = Math.min(yearIndex, years.length - 1).
ClampedIndex(offset, n) == Min(YearIndex(offset, n), n - 1)

\* Mutant of BaseMonthIndex: Math.floor(positionWithinYear * 12) with no
\* Math.min.
BaseMonthIndexUnclamped(offset, n) ==
    IF n = 0
    THEN NAN
    ELSE ((RatioNum(offset) * n - ClampedIndex(offset, n) * rectWidth)
            * 12) \div rectWidth

\* Math.min(Math.floor(positionWithinYear * 12), 11), where
\* positionWithinYear = (ratio - clampedIndex / n) / (1 / n).  With n = 0
\* yearSegmentSize is Infinity and yearStartRatio -Infinity, so that
\* positionWithinYear is Infinity / Infinity: NaN, which Math.floor and
\* Math.min hand on.
BaseMonthIndex(offset, n) ==
    IF n = 0
    THEN NAN
    ELSE Min(((RatioNum(offset) * n - ClampedIndex(offset, n) * rectWidth)
                * 12) \div rectWidth, 11)

\* Mutant of MonthIndex: the months not mirrored when reversed.
MonthIndexNeverReversed(offset, n, rev) == BaseMonthIndex(offset, n)

\* monthIndex = reversed ? 11 - baseMonthIndex : baseMonthIndex; 11 - NaN
\* is NaN.
MonthIndex(offset, n, rev) ==
    IF BaseMonthIndex(offset, n) = NAN THEN NAN
    ELSE IF rev THEN 11 - BaseMonthIndex(offset, n)
    ELSE BaseMonthIndex(offset, n)

\* Mutant of CursorPosition: the position snapped to the tick of the
\* hovered year.
CursorPositionSnapped(offset) ==
    LET tick == (ClampedIndex(offset, Len(years)) * rectWidth) \div Len(years)
    IN  IF orientation = "horizontal" THEN [x |-> tick, y |-> 0]
        ELSE [x |-> 0, y |-> tick]

\* The position handed to setHoverPosition.
CursorPosition(offset) ==
    IF orientation = "horizontal" THEN [x |-> offset, y |-> 0]
    ELSE [x |-> 0, y |-> offset]

(* ---------------------------- timers ---------------------------------- *)

\* The id setTimeout returns: one no pending timeout has.
NewTimerId ==
    CHOOSE i \in 1..MaxTimers :
        /\ i \notin {t.id : t \in timers}
        /\ \A j \in 1..(i - 1) : j \in {t.id : t \in timers}

\* setTimeout(callback, 150), the callback closing over isPopupHovered.
SetTimeout(pending, id, captured) ==
    pending \cup {[id |-> id, isPopupHovered |-> captured]}

\* clearTimeout(id): no effect when no pending timeout has that id.
ClearTimeout(pending, id) == {t \in pending : t.id # id}

\* Mutant of TimeoutCallback: the test of line 551 inverted.
TimeoutCallbackInverted(t) == IF t.isPopupHovered THEN NULL ELSE hoverYear

\* hoverYear after the callback of timeout t has run.
TimeoutCallback(t) == IF ~t.isPopupHovered THEN NULL ELSE hoverYear

(* ------------------------- MonthSelector ------------------------------ *)

\* Mutant of MonthDisabled: the months after endDate left enabled.
MonthDisabledBeforeStart(year, i) ==
    TimeValue(NewDate(year, i, 1))
        < TimeValue(NewDate(startDate.year, startDate.month, 1))

\* Mutant of MonthDisabled: startDate and endDate compared as they are,
\* not truncated to the first of their month.
MonthDisabledByDay(year, i) ==
    LET date == NewDate(year, i, 1)
    IN  \/ TimeValue(date) < TimeValue(startDate)
        \/ TimeValue(date) > TimeValue(endDate)

\* months[i].disabled of the MonthSelector rendered for `year`.
MonthDisabled(year, i) ==
    LET date == NewDate(year, i, 1)
    IN  \/ TimeValue(date)
             < TimeValue(NewDate(startDate.year, startDate.month, 1))
        \/ TimeValue(date)
             > TimeValue(NewDate(endDate.year, endDate.month, 1))

\* Mutant of ButtonClickable: the disabled attribute left out.
ButtonAlwaysClickable(year, i) == TRUE

\* Whether a click on the button of month i reaches its onClick: a
\* disabled button dispatches no click.
ButtonClickable(year, i) == ~MonthDisabled(year, i)

\* Mutant of SelectedDate: the month taken as 1-based.
SelectedDateOneBased(month) == NewDate(hoverYear, month + 1, 1)

\* The date handleMonthSelect(month) hands to onChange.
SelectedDate(month) == NewDate(hoverYear, month, 1)

\* hoveredFromBar={isPopupHovered ? null : hoverMonth}, line 673.
hoveredFromBar == IF isPopupHovered THEN NULL ELSE hoverMonth

\* Mutant of Nullish: a || b, which also drops 0.
LogicalOr(a, b) == IF a = NULL \/ a = UNDEFINED \/ a = 0 THEN b ELSE a

\* a ?? b: b when a is null or undefined.
Nullish(a, b) == IF a = NULL \/ a = UNDEFINED THEN b ELSE a

\* displayedHoverMonth of the rendered MonthSelector, line 351.
displayedHoverMonth == Nullish(hoveredMonth, hoveredFromBar)

(* --------------------------- grid variant ----------------------------- *)

\* The hours of the time of day of a date; a date built from year, month
\* and day alone is at midnight.
Hours(date) == IF "hours" \in DOMAIN date THEN date.hours ELSE 0

\* Date.prototype.valueOf in hours since 1970-01-01: the order of < and >
\* of two dates that may carry a time of day.
TimeValueHours(date) == 24 * TimeValue(date) + Hours(date)

\* Date.prototype.getDay: 0 is Sunday; 1970-01-01 was a Thursday.
GetDay(date) == (TimeValue(date) + 4) % 7

DAYS_IN_WEEK == 7

\* new Date(year, month + 1, 0).getDate(): day 0 of the next month is the
\* last day of this one.
getDaysInMonth(year, month) ==
    TimeValue(NewDate(year, month + 1, 1)) - TimeValue(NewDate(year, month, 1))

getFirstDayOfMonth(year, month) == GetDay(NewDate(year, month, 1))

isDateDisabled(date, min, max) ==
    \/ min # UndefinedDate /\ TimeValueHours(date) < TimeValueHours(min)
    \/ max # UndefinedDate /\ TimeValueHours(date) > TimeValueHours(max)

viewYear == viewDate.year

viewMonth == viewDate.month

RECURSIVE PadToWeeks(_)
\* while (days.length % DAYS_IN_WEEK !== 0) days.push(null)
PadToWeeks(days) ==
    IF Len(days) % DAYS_IN_WEEK # 0
    THEN PadToWeeks(Append(days, NullDate))
    ELSE days

\* startOffset of the calendarDays memo.
StartOffset(year, month, first) ==
    (getFirstDayOfMonth(year, month) - first + DAYS_IN_WEEK) % DAYS_IN_WEEK

\* Mutant of CalendarDaysOf: firstDayOfWeek ignored (weeks start on Sunday).
CalendarDaysFromSunday(year, month, first) ==
    PadToWeeks(
        [i \in 1..StartOffset(year, month, 0) |-> NullDate]
          \o [day \in 1..getDaysInMonth(year, month)
                 |-> NewDate(year, month, day)])

\* The calendarDays memo for a visible month and a firstDayOfWeek.
CalendarDaysOf(year, month, first) ==
    PadToWeeks(
        [i \in 1..StartOffset(year, month, first) |-> NullDate]
          \o [day \in 1..getDaysInMonth(year, month)
                 |-> NewDate(year, month, day)])

\* The calendarDays memo of the rendered grid.
calendarDays == CalendarDaysOf(viewYear, viewMonth, firstDayOfWeek)

\* Mutant of WeekDaysOf: firstDayOfWeek ignored (headers start on Sunday).
WeekDaysFromSunday(first) ==
    [i \in 1..DAYS_IN_WEEK |-> GetDay(NewDate(2024, 0, 7 + (i - 1)))]

\* The weekDays memo for a firstDayOfWeek: header i (from 0) is the short
\* name of the weekday of new Date(2024, 0, 7 + dayIndex), kept as the
\* number of that weekday.
WeekDaysOf(first) ==
    [i \in 1..DAYS_IN_WEEK |->
        GetDay(NewDate(2024, 0, 7 + ((first + (i - 1)) % DAYS_IN_WEEK)))]

\* The weekDays memo of the rendered grid.
weekDays == WeekDaysOf(firstDayOfWeek)

\* The dates of the cells of `days` that are not blank: those a button is
\* rendered for.
DayCells(days) == {days[i] : i \in DOMAIN days} \ {NullDate}

\* disabled={disabled || isDisabledDate} of the button of a day cell.
DayButtonDisabled(date) == disabled \/ isDateDisabled(date, minDate, maxDate)

\* The years the grid is navigated over.
ViewYears == 2024..(2024 + ViewYearSpan)

\* The days of the visible month whose cells are activated.
SampledDays == {1, 10, 20, getDaysInMonth(viewYear, viewMonth)}

\* new Date() at the construction of the grid.
Todays == { [year |-> 2024, month |-> 6, day |-> 15, hours |-> 9] }

\* The value prop at construction.
InitialValues == { NullDate, [year |-> 2024, month |-> 1, day |-> 29] }

\* The <<minDate, maxDate>> props tried: none, both at midnight, both with
\* a time of day.
DateBounds ==
    { <<UndefinedDate, UndefinedDate>>,
      << [year |-> 2024, month |-> 6, day |-> 10],
         [year |-> 2024, month |-> 7, day |-> 20] >>,
      << [year |-> 2024, month |-> 6, day |-> 10, hours |-> 12],
         [year |-> 2024, month |-> 7, day |-> 20, hours |-> 12] >> }

\* The grid's part of the state while the timeline is the mounted widget.
GridUnmounted ==
    /\ value = NullDate
    /\ minDate = UndefinedDate
    /\ maxDate = UndefinedDate
    /\ disabled = FALSE
    /\ firstDayOfWeek = 0
    /\ viewDate = NullDate
    /\ activated = NullDate

\* The timeline's part of the state while the grid is the mounted widget.
TimelineUnmounted ==
    /\ startDate = NullDate
    /\ endDate = NullDate
    /\ reversed = FALSE
    /\ orientation = "vertical"
    /\ rectWidth = 0
    /\ hoverYear = NULL
    /\ hoverMonth = NULL
    /\ hoverPosition = [x |-> 0, y |-> 0]
    /\ isPopupHovered = FALSE
    /\ closeTimeoutRef = NULL
    /\ timers = {}
    /\ clicked = NULL
    /\ mounted = FALSE
    /\ listeners = 0
    /\ hoveredMonth = NULL

\* The timeline after its mount: the effect of lines 582-594 has added its
\* listener, and no MonthSelector is rendered.
TimelineMounted ==
    /\ mounted = TRUE
    /\ listeners = 1
    /\ hoveredMonth = NULL

(* ------------------------------ Init ---------------------------------- *)

Init ==
    /\ \E range \in DateRanges :
           /\ startDate = range[1]
           /\ endDate = range[2]
    /\ reversed \in BOOLEAN
    /\ orientation \in {"horizontal", "vertical"}
    /\ rectWidth = BarLength
    /\ hoverYear = NULL
    /\ hoverMonth = NULL
    /\ hoverPosition = [x |-> 0, y |-> 0]
    /\ isPopupHovered = FALSE
    /\ closeTimeoutRef = NULL
    /\ timers = {}
    /\ emitted = <<>>
    /\ clicked = NULL
    /\ GridUnmounted
    /\ TimelineMounted

\* The state after construction with the props of the edge cases.
DegenerateInit ==
    /\ \E range \in DegenerateRanges :
           /\ startDate = range[1]
           /\ endDate = range[2]
    /\ reversed \in BOOLEAN
    /\ orientation \in {"horizontal", "vertical"}
    /\ rectWidth = BarLength
    /\ hoverYear = NULL
    /\ hoverMonth = NULL
    /\ hoverPosition = [x |-> 0, y |-> 0]
    /\ isPopupHovered = FALSE
    /\ closeTimeoutRef = NULL
    /\ timers = {}
    /\ emitted = <<>>
    /\ clicked = NULL
    /\ GridUnmounted
    /\ TimelineMounted

\* The state after construction with the props of the year labels.
LabelInit ==
    /\ \E range \in LabelRanges :
           /\ startDate = range[1]
           /\ endDate = range[2]
    /\ reversed \in BOOLEAN
    /\ orientation \in {"horizontal", "vertical"}
    /\ rectWidth = BarLength
    /\ hoverYear = NULL
    /\ hoverMonth = NULL
    /\ hoverPosition = [x |-> 0, y |-> 0]
    /\ isPopupHovered = FALSE
    /\ closeTimeoutRef = NULL
    /\ timers = {}
    /\ emitted = <<>>
    /\ clicked = NULL
    /\ GridUnmounted
    /\ TimelineMounted

\* Mutant of GridInit: the view initialised from today whatever the value.
GridInitFromToday ==
    /\ TimelineUnmounted
    /\ value \in InitialValues
    /\ \E bounds \in DateBounds :
           /\ minDate = bounds[1]
           /\ maxDate = bounds[2]
    /\ disabled \in BOOLEAN
    /\ firstDayOfWeek \in 0..6
    /\ viewDate \in Todays
    /\ activated = NullDate
    /\ emitted = <<>>

\* The state after construction with the props of the year ticks, the bar
\* laid out TickBarLength pixels long.
TickInit ==
    /\ \E range \in TickRanges :
           /\ startDate = range[1]
           /\ endDate = range[2]
    /\ reversed \in BOOLEAN
    /\ orientation \in {"horizontal", "vertical"}
    /\ rectWidth = TickBarLength
    /\ hoverYear = NULL
    /\ hoverMonth = NULL
    /\ hoverPosition = [x |-> 0, y |-> 0]
    /\ isPopupHovered = FALSE
    /\ closeTimeoutRef = NULL
    /\ timers = {}
    /\ emitted = <<>>
    /\ clicked = NULL
    /\ GridUnmounted
    /\ TimelineMounted

\* The state after the construction of the grid.
GridInit ==
    /\ TimelineUnmounted
    /\ value \in InitialValues
    /\ \E bounds \in DateBounds :
           /\ minDate = bounds[1]
           /\ maxDate = bounds[2]
    /\ disabled \in BOOLEAN
    /\ firstDayOfWeek \in 0..6
    /\ \E today \in Todays :
           viewDate = (IF value # NullDate THEN value ELSE today)
    /\ activated = NullDate
    /\ emitted = <<>>

(* ----------------------------- actions -------------------------------- *)

\* The MonthSelector keeps its local state while it is rendered (line 665);
\* when the popup closes it is unmounted, and the next one starts with null.
KeepMonthSelector ==
    hoveredMonth' = (IF hoverYear' = NULL THEN NULL ELSE hoveredMonth)

\* Mutant of handleBarMouseMove: the early return of lines 506-508 left out.
handleBarMouseMoveWhilePinned(offset) ==
    /\ mounted
    /\ timers' = (IF closeTimeoutRef # NULL
                  THEN ClearTimeout(timers, closeTimeoutRef) ELSE timers)
    /\ closeTimeoutRef' = NULL
    /\ hoverMonth' = MonthIndex(offset, Len(years), reversed)
    /\ hoverYear' = ArrayGet(years, ClampedIndex(offset, Len(years)))
    /\ hoverPosition' = CursorPosition(offset)
    /\ emitted' = <<>>
    /\ clicked' = NULL
    /\ UNCHANGED <<props, grid, isPopupHovered>>
    /\ UNCHANGED lifecycle
    /\ KeepMonthSelector

\* onMouseMove of the bar container, the pointer sampled at `offset`.
handleBarMouseMove(offset) ==
    /\ mounted
    /\ timers' = (IF closeTimeoutRef # NULL
                  THEN ClearTimeout(timers, closeTimeoutRef) ELSE timers)
    /\ closeTimeoutRef' = NULL
    /\ IF isPopupHovered
       THEN UNCHANGED <<hoverYear, hoverMonth, hoverPosition>>
       ELSE /\ hoverMonth' = MonthIndex(offset, Len(years), reversed)
            /\ hoverYear' = ArrayGet(years, ClampedIndex(offset, Len(years)))
            /\ hoverPosition' = CursorPosition(offset)
    /\ emitted' = <<>>
    /\ clicked' = NULL
    /\ UNCHANGED <<props, grid, isPopupHovered>>
    /\ UNCHANGED lifecycle
    /\ KeepMonthSelector

\* Mutant of handleBarMouseLeave: the leave reported to the host.
handleBarMouseLeaveEmitting ==
    /\ mounted
    /\ Cardinality(timers) < MaxTimers
    /\ timers' = SetTimeout(timers, NewTimerId, isPopupHovered)
    /\ closeTimeoutRef' = NewTimerId
    /\ emitted' = <<NullDate>>
    /\ clicked' = NULL
    /\ UNCHANGED <<props, grid, hover>>
    /\ UNCHANGED lifecycle
    /\ KeepMonthSelector

\* onMouseLeave of the bar container.
handleBarMouseLeave ==
    /\ mounted
    /\ Cardinality(timers) < MaxTimers
    /\ timers' = SetTimeout(timers, NewTimerId, isPopupHovered)
    /\ closeTimeoutRef' = NewTimerId
    /\ emitted' = <<>>
    /\ clicked' = NULL
    /\ UNCHANGED <<props, grid, hover>>
    /\ UNCHANGED lifecycle
    /\ KeepMonthSelector

\* A pending close timeout fires.  After the unmount React discards the
\* state update of the callback.
CloseTimeout(t) ==
    /\ t \in timers
    /\ timers' = timers \ {t}
    /\ hoverYear' = (IF mounted THEN TimeoutCallback(t) ELSE hoverYear)
    /\ emitted' = <<>>
    /\ clicked' = NULL
    /\ UNCHANGED <<props, grid, hoverMonth, hoverPosition, isPopupHovered,
                   closeTimeoutRef>>
    /\ UNCHANGED lifecycle
    /\ KeepMonthSelector

\* onMouseEnter of the popup.
handlePopupMouseEnter ==
    /\ mounted
    /\ hoverYear # NULL
    /\ timers' = (IF closeTimeoutRef # NULL
                  THEN ClearTimeout(timers, closeTimeoutRef) ELSE timers)
    /\ closeTimeoutRef' = NULL
    /\ isPopupHovered' = TRUE
    /\ emitted' = <<>>
    /\ clicked' = NULL
    /\ UNCHANGED <<props, grid, hoverYear, hoverMonth, hoverPosition>>
    /\ UNCHANGED lifecycle
    /\ KeepMonthSelector

\* Mutant of handlePopupMouseLeave: the hover left to the close timer.
handlePopupMouseLeaveDelayed ==
    /\ mounted
    /\ hoverYear # NULL
    /\ isPopupHovered' = FALSE
    /\ emitted' = <<>>
    /\ clicked' = NULL
    /\ UNCHANGED <<props, grid, hoverYear, hoverMonth, hoverPosition,
                   closeTimeoutRef, timers>>
    /\ UNCHANGED lifecycle
    /\ KeepMonthSelector

\* onMouseLeave of the popup.
handlePopupMouseLeave ==
    /\ mounted
    /\ hoverYear # NULL
    /\ isPopupHovered' = FALSE
    /\ hoverYear' = NULL
    /\ emitted' = <<>>
    /\ clicked' = NULL
    /\ UNCHANGED <<props, grid, hoverMonth, hoverPosition, closeTimeoutRef,
                   timers>>
    /\ UNCHANGED lifecycle
    /\ KeepMonthSelector

\* Mutant of onChange: the callback called with null.
onChangeNull(date) == emitted' = <<NullDate>>

\* onChange?.(date): one call of the host's callback.
onChange(date) == emitted' = <<date>>

\* Mutant of handleMonthSelect: a selection equal to the previous emission
\* is dropped.
handleMonthSelectDeduplicated(month) ==
    IF hoverYear # NULL /\ emitted # <<SelectedDate(month)>>
    THEN onChange(SelectedDate(month))
    ELSE emitted' = <<>>

\* onSelect of the popup.
handleMonthSelect(month) ==
    IF hoverYear # NULL
    THEN onChange(SelectedDate(month))
    ELSE emitted' = <<>>

\* Mutant of MonthButtonClick: the popup closed by the selection.
MonthButtonClickClosing(month) ==
    /\ mounted
    /\ hoverYear # NULL
    /\ clicked' = month
    /\ hoverYear' = (IF ButtonClickable(hoverYear, month)
                     THEN NULL ELSE hoverYear)
    /\ UNCHANGED <<props, grid, hoverMonth, hoverPosition, isPopupHovered,
                   closeTimeoutRef, timers>>
    /\ IF ButtonClickable(hoverYear, month)
       THEN handleMonthSelect(month)
       ELSE emitted' = <<>>
    /\ UNCHANGED lifecycle
    /\ KeepMonthSelector

\* A click on the button of month `month` of the rendered popup.
MonthButtonClick(month) ==
    /\ mounted
    /\ hoverYear # NULL
    /\ clicked' = month
    /\ UNCHANGED <<props, grid, hover, closeTimeoutRef, timers>>
    /\ IF ButtonClickable(hoverYear, month)
       THEN handleMonthSelect(month)
       ELSE emitted' = <<>>
    /\ UNCHANGED lifecycle
    /\ KeepMonthSelector

\* Mutant of handleClickOutside: the test of lines 584-587 left out.
handleClickAnywhere(inside) ==
    /\ listeners > 0
    /\ hoverYear' = NULL
    /\ emitted' = <<>>
    /\ clicked' = NULL
    /\ UNCHANGED <<props, grid, hoverMonth, hoverPosition, isPopupHovered,
                   closeTimeoutRef, timers>>
    /\ UNCHANGED lifecycle
    /\ KeepMonthSelector

\* The document's mousedown listener; `inside` tells whether the container
\* contains the event's target.  containerRef.current is the container
\* while the component is mounted and null after.
handleClickOutside(inside) ==
    /\ listeners > 0
    /\ hoverYear' = (IF mounted /\ ~inside THEN NULL ELSE hoverYear)
    /\ emitted' = <<>>
    /\ clicked' = NULL
    /\ UNCHANGED <<props, grid, hoverMonth, hoverPosition, isPopupHovered,
                   closeTimeoutRef, timers>>
    /\ UNCHANGED lifecycle
    /\ KeepMonthSelector

\* onMouseEnter of the button of month `month` of the rendered popup,
\* delivered for enabled and disabled buttons alike.
MonthButtonMouseEnter(month) ==
    /\ mounted
    /\ hoverYear # NULL
    /\ hoveredMonth' = month
    /\ emitted' = <<>>
    /\ clicked' = NULL
    /\ UNCHANGED <<props, grid, lifecycle, hover, closeTimeoutRef, timers>>

\* onMouseLeave of a month button of the rendered popup.
MonthButtonMouseLeave ==
    /\ mounted
    /\ hoverYear # NULL
    /\ hoveredMonth' = NULL
    /\ emitted' = <<>>
    /\ clicked' = NULL
    /\ UNCHANGED <<props, grid, lifecycle, hover, closeTimeoutRef, timers>>

\* Mutant of Unmount: the mousedown listener left on the document.
UnmountKeepingListener ==
    /\ mounted
    /\ mounted' = FALSE
    /\ listeners' = listeners
    /\ timers' = (IF closeTimeoutRef # NULL
                  THEN ClearTimeout(timers, closeTimeoutRef) ELSE timers)
    /\ hoveredMonth' = NULL
    /\ emitted' = <<>>
    /\ clicked' = NULL
    /\ UNCHANGED <<props, grid, hover, closeTimeoutRef>>

\* The unmount of the timeline: the cleanups of the effects run, the one
\* of lines 592-593 removes the mousedown listener, the one of lines
\* 598-602 clears the timeout closeTimeoutRef.current holds.
Unmount ==
    /\ mounted
    /\ mounted' = FALSE
    /\ listeners' = listeners - 1
    /\ timers' = (IF closeTimeoutRef # NULL
                  THEN ClearTimeout(timers, closeTimeoutRef) ELSE timers)
    /\ hoveredMonth' = NULL
    /\ emitted' = <<>>
    /\ clicked' = NULL
    /\ UNCHANGED <<props, grid, hover, closeTimeoutRef>>

Next ==
    \/ \E offset \in SampledOffsets : handleBarMouseMove(offset)
    \/ handleBarMouseLeave
    \/ \E t \in timers : CloseTimeout(t)
    \/ handlePopupMouseEnter
    \/ handlePopupMouseLeave
    \/ \E month \in Months : MonthButtonClick(month)
    \/ \E inside \in BOOLEAN : handleClickOutside(inside)

Spec == Init /\ [][Next]_vars

\* The timeout with the given id fires.
CloseTimeoutOf(id) == \E t \in timers : t.id = id /\ CloseTimeout(t)

\* The window runs the callback of every timeout that stays pending.
TimersFire == \A id \in 1..MaxTimers : WF_vars(CloseTimeoutOf(id))

\* Spec, with the timeouts firing.
LiveSpec == Spec /\ TimersFire

\* Only the pointer moves over the bar: the coordinate mapping applied to
\* every pointer sample under every props.
MoveSpec == Init /\ [][\E offset \in Offsets : handleBarMouseMove(offset)]_vars

\* The pointer moves over the bar of a range of no year or one year.
DegenerateSpec ==
    DegenerateInit
      /\ [][\E offset \in Offsets : handleBarMouseMove(offset)]_vars

\* The timeline from its mount to its unmount and after it.
LifecycleSpec == Init /\ [][Next \/ Unmount]_vars

\* The pointer over the bar, the popup and the month buttons of the popup.
PanelNext ==
    \/ \E offset \in SampledOffsets : handleBarMouseMove(offset)
    \/ handlePopupMouseEnter
    \/ handlePopupMouseLeave
    \/ \E month \in Months : MonthButtonMouseEnter(month)
    \/ MonthButtonMouseLeave
    \/ \E inside \in BOOLEAN : handleClickOutside(inside)

PanelSpec == Init /\ [][PanelNext]_vars

\* The pointer moves over the bar of a range of ten years or more.
LabelSpec ==
    LabelInit /\ [][\E offset \in Offsets : handleBarMouseMove(offset)]_vars

\* The pointer moves over the bar of a range of 22 years or more.
TickSpec ==
    TickInit
      /\ [][\E offset \in TickOffsets : handleBarMouseMove(offset)]_vars

(* ------------------------- grid: actions ------------------------------ *)

\* setDate of the host (onChange={setDate}): the value prop of the next
\* render is the date handed to onChange.
setDate(date) == value' = date

\* setViewDate, within the years the grid is navigated over.
setViewDate(date) ==
    /\ date.year \in ViewYears
    /\ viewDate' = date

\* Mutant of NavigationClick: the disabled attribute of the button left
\* out.
NavigationClickWhileDisabled(date) ==
    /\ viewDate # NullDate
    /\ setViewDate(date)
    /\ emitted' = <<>>
    /\ activated' = NullDate
    /\ UNCHANGED <<timeline, gridProps, value>>

\* A click on the button of a navigation handler: a disabled button
\* dispatches none.
NavigationClick(date) ==
    /\ viewDate # NullDate
    /\ ~disabled
    /\ setViewDate(date)
    /\ emitted' = <<>>
    /\ activated' = NullDate
    /\ UNCHANGED <<timeline, gridProps, value>>

goToPreviousMonth == NavigationClick(NewDate(viewYear, viewMonth - 1, 1))

goToNextMonth == NavigationClick(NewDate(viewYear, viewMonth + 1, 1))

goToPreviousYear == NavigationClick(NewDate(viewYear - 1, viewMonth, 1))

goToNextYear == NavigationClick(NewDate(viewYear + 1, viewMonth, 1))

handleDateSelect(date) ==
    IF disabled \/ isDateDisabled(date, minDate, maxDate)
    THEN emitted' = <<>> /\ UNCHANGED value
    ELSE onChange(date) /\ setDate(date)

\* A click on the button of the cell of `date`.
DayCellClick(date) ==
    /\ viewDate # NullDate
    /\ date \in DayCells(calendarDays)
    /\ activated' = date
    /\ UNCHANGED <<timeline, gridProps, viewDate>>
    /\ IF DayButtonDisabled(date)
       THEN emitted' = <<>> /\ UNCHANGED value
       ELSE handleDateSelect(date)

\* handleKeyDown: a key pressed on the focused button of the cell of
\* `date`; a disabled button takes no focus.
handleKeyDown(key, date) ==
    /\ viewDate # NullDate
    /\ date \in DayCells(calendarDays)
    /\ ~DayButtonDisabled(date)
    /\ UNCHANGED <<timeline, gridProps, viewDate>>
    /\ IF key = "Enter" \/ key = " "
       THEN activated' = date /\ handleDateSelect(date)
       ELSE activated' = NullDate /\ emitted' = <<>> /\ UNCHANGED value

\* A click on Clear, rendered while value is set.
ClearClick ==
    /\ viewDate # NullDate
    /\ value # NullDate
    /\ ~disabled
    /\ onChange(NullDate)
    /\ setDate(NullDate)
    /\ activated' = NullDate
    /\ UNCHANGED <<timeline, gridProps, viewDate>>

\* The cells of the visible month that are activated.
SampledCells == {NewDate(viewYear, viewMonth, day) : day \in SampledDays}

GridNext ==
    \/ goToPreviousMonth
    \/ goToNextMonth
    \/ goToPreviousYear
    \/ goToNextYear
    \/ \E date \in SampledCells : DayCellClick(date)
    \/ \E key \in {"Enter", " ", "Tab"} : \E date \in SampledCells :
           handleKeyDown(key, date)
    \/ ClearClick

RECURSIVE NextMonths(_, _)
\* The viewDate after k goToNextMonth steps from the view of `date`.
NextMonths(date, k) ==
    IF k = 0 THEN date
    ELSE NextMonths(NewDate(date.year, date.month + 1, 1), k - 1)

\* The grid variant.
GridSpec == GridInit /\ [][GridNext]_vars

\* Either variant is the mounted widget.
AppSpec ==
    (Init \/ GridInit)
      /\ [][(viewDate = NullDate /\ Next)
               \/ (viewDate # NullDate /\ GridNext)]_vars

(* ------------------------ steps, by handler --------------------------- *)

\* The step is a pointer move over the bar.
BarMouseMoveStep == \E offset \in Offsets : handleBarMouseMove(offset)

\* The step is the firing of pending timeout t.
CloseTimeoutStep(t) == t \in timers /\ CloseTimeout(t)

\* The offset of the pointer sample the hover state was computed from.
HoverOffset ==
    IF orientation = "horizontal" THEN hoverPosition.x ELSE hoverPosition.y

\* The popup is rendered.
PopupOpen == hoverYear # NULL

(* ------------------------------ claims -------------------------------- *)

\* C1: a pointer move over the bar cancels the pending close of every
\* earlier leave: after the move no close timer is pending, so none can
\* still set the hovered year to null.  (Stated as the claim states it;
\* violated after two leaves in a row, see C3.)
C1_MoveCancelsEveryPendingClose ==
    [][BarMouseMoveStep => timers' = {}]_vars

\* The steps of C2: a leave of the bar with the popup open and not pinned
\* schedules one close; unless a pointer move over the bar or an entry of
\* the popup cancels it, it stays pending until it fires; its firing sets
\* the hovered year to null and consumes it, so that it cannot clear a
\* second time; and a cleared hover stays cleared until the pointer moves
\* over the bar again.
C2_LeaveClearsHoverOnce ==
    [][/\ (handleBarMouseLeave /\ PopupOpen /\ ~isPopupHovered)
           => \E t \in timers' \ timers :
                 ~t.isPopupHovered /\ timers' = timers \cup {t}
       /\ \A t \in timers :
             (~t.isPopupHovered /\ CloseTimeoutStep(t))
                => (hoverYear' = NULL /\ t \notin timers')
       /\ \A t \in timers :
             t \notin timers'
                => (CloseTimeoutStep(t) \/ BarMouseMoveStep
                      \/ handlePopupMouseEnter)
       /\ (hoverYear = NULL /\ hoverYear' # NULL) => BarMouseMoveStep]_vars

\* C2 witness: the popup was opened and is closed again, not pinned, and the
\* timer the last leave stored in closeTimeoutRef is no longer pending: it
\* was not cancelled (that resets the ref), it fired.
C2_Witness ==
    /\ hoverYear = NULL
    /\ hoverMonth # NULL
    /\ ~isPopupHovered
    /\ closeTimeoutRef # NULL
    /\ timers = {}

\* C2, the timer does fire: once the pointer has left the bar with the
\* popup open and not pinned (closeTimeoutRef holds the timer of that leave
\* until a move over the bar or an entry of the popup resets it), the hover
\* is cleared unless the pointer comes back first.
C2_LeaveEventuallyClears ==
    (PopupOpen /\ ~isPopupHovered /\ closeTimeoutRef # NULL)
        ~> (hoverYear = NULL \/ closeTimeoutRef = NULL)

\* C2: if the pointer leaves the bar while the popup is open and neither
\* re-enters the bar nor enters the popup before the delay elapses, the
\* hovered year goes from non-null to null exactly once.
C2_HoverClearsExactlyOnce ==
    C2_LeaveClearsHoverOnce /\ C2_LeaveEventuallyClears

\* C3: in every reachable state at most one close timer is pending.
C3_AtMostOnePendingTimer == Cardinality(timers) <= 1

\* C4: while the popup is hovered (pinned) no timer callback sets the
\* hovered year to null.  (Stated as the claim states it; violated by the
\* timer a second leave in a row has orphaned, see C3.)
C4_NoCloseWhilePinned ==
    [][\A t \in timers :
          (CloseTimeoutStep(t) /\ isPopupHovered)
              => hoverYear' = hoverYear]_vars

\* pointer sample `offset` is the exact midpoint of segment i of n.
IsMidpoint(offset, i, n) == 2 * n * offset = (2 * i + 1) * BarLength

\* C5: for every year count n >= 1 and every pointer coordinate, before
\* the start and past the end of the bar included, the year index computed
\* is in 0..n-1 and does not decrease as the coordinate increases; the
\* hovered year of an open popup is the year of the range at that index.
C5_YearIndexInRangeAndMonotone ==
    /\ \A n \in 1..MaxYearCount : \A a, b \in Offsets :
          /\ ClampedIndex(a, n) \in 0..(n - 1)
          /\ a <= b => ClampedIndex(a, n) <= ClampedIndex(b, n)
    /\ PopupOpen =>
          /\ ClampedIndex(HoverOffset, Len(years)) \in 0..(Len(years) - 1)
          /\ hoverYear = years[ClampedIndex(HoverOffset, Len(years)) + 1]

\* C5 witness: the pointer sampled past the end of a bar of several years,
\* and the popup open on the last year of the sequence.
C5_Witness ==
    /\ Len(years) > 1
    /\ HoverOffset > BarLength
    /\ hoverYear = years[Len(years)]

\* C6: reversed=false, a range of N years: after a pointer move at the
\* exact midpoint of segment i the hovered year is startYear + i, for
\* every i in 0..N-1.  (The hover state of an open popup is the one
\* computed from the sample at HoverOffset: only an unpinned move sets it.)
C6_MidpointYear ==
    (PopupOpen /\ ~reversed) =>
        \A i \in 0..(Len(years) - 1) :
            IsMidpoint(HoverOffset, i, Len(years))
                => hoverYear = startDate.year + i

\* C6 witness: an unpinned move at the midpoint of the last of three
\* segments has set the hovered year.
C6_Witness ==
    /\ PopupOpen /\ ~reversed /\ ~isPopupHovered
    /\ Len(years) = 3
    /\ IsMidpoint(HoverOffset, 2, 3)
    /\ hoverYear = startDate.year + 2

\* C7: reversed=true reverses the year order along the bar: a pointer in
\* segment i yields the year reversed=false yields for segment N-1-i; the
\* start of the bar yields the last year of the range and its end the first.
C7_ReversedOrder ==
    LET n == Len(years)
        fwd == YearsOf(startDate, endDate, FALSE)
        rev == YearsOf(startDate, endDate, TRUE)
    IN  /\ \A offset \in Offsets :
              ArrayGet(rev, ClampedIndex(offset, n))
                  = ArrayGet(fwd, n - 1 - ClampedIndex(offset, n))
        /\ ArrayGet(rev, ClampedIndex(0, n)) = endDate.year
        /\ ArrayGet(rev, ClampedIndex(BarLength, n)) = startDate.year
        /\ (PopupOpen /\ reversed) =>
              hoverYear = ArrayGet(fwd, n - 1 - ClampedIndex(HoverOffset, n))

\* C7 witness: reversed=true, a range of several years, the pointer at the
\* start of the bar and the popup open on the last year of the range.
C7_Witness ==
    /\ reversed
    /\ Len(years) > 1
    /\ HoverOffset = 0
    /\ hoverYear = endDate.year

\* C8: a click that reaches the onClick of month m (0..11) while the
\* hovered year is y makes exactly one onChange call, with the date
\* (y, m, 1); month 5 with hovered year 2022 emits 1 June 2022.
C8_SelectEmitsFirstOfMonth ==
    [][(clicked' # NULL /\ ButtonClickable(hoverYear, clicked'))
          => emitted' = << [year |-> hoverYear, month |-> clicked',
                             day |-> 1] >>]_vars

\* C8 witness: month index 5 was selected with hovered year 2022.
C8_Witness ==
    /\ hoverYear = 2022
    /\ clicked = 5
    /\ emitted = <<[year |-> 2022, month |-> 5, day |-> 1]>>

\* Months since year 0 of month m of year y.
MonthNumber(y, m) == 12 * y + m

\* C9: month m of year y is disabled iff (y, m) is before startDate's
\* month or after endDate's month, whatever the days of startDate and
\* endDate; for 2020-01-01..2021-06-01, December 2019 and July 2021 are
\* disabled, January 2020 and June 2021 enabled.
C9_DisabledRule ==
    /\ \A y \in (startDate.year - 1)..(endDate.year + 1) : \A m \in Months :
          MonthDisabled(y, m)
             <=> \/ MonthNumber(y, m)
                      < MonthNumber(startDate.year, startDate.month)
                 \/ MonthNumber(y, m)
                      > MonthNumber(endDate.year, endDate.month)
    /\ (/\ startDate = [year |-> 2020, month |-> 0, day |-> 1]
        /\ endDate = [year |-> 2021, month |-> 5, day |-> 1])
         => /\ MonthDisabled(2019, 11)
            /\ MonthDisabled(2021, 6)
            /\ ~MonthDisabled(2020, 0)
            /\ ~MonthDisabled(2021, 5)

\* C9 witness: the popup is open on 2021 for the range 2020-01-01 to
\* 2021-06-01, with June enabled and July disabled.
C9_Witness ==
    /\ startDate = [year |-> 2020, month |-> 0, day |-> 1]
    /\ endDate = [year |-> 2021, month |-> 5, day |-> 1]
    /\ hoverYear = 2021
    /\ ~MonthDisabled(hoverYear, 5)
    /\ MonthDisabled(hoverYear, 6)

\* C10: a click on a disabled month makes no onChange call (so the host's
\* selected value stays) and changes no hover state.
C10_DisabledClickIsNoOp ==
    [][(clicked' # NULL /\ MonthDisabled(hoverYear, clicked'))
          => /\ emitted' = <<>>
             /\ UNCHANGED <<hover, closeTimeoutRef, timers>>]_vars

\* C10 witness: a disabled month of the open popup was clicked.
C10_Witness ==
    /\ PopupOpen
    /\ clicked # NULL
    /\ MonthDisabled(hoverYear, clicked)
    /\ emitted = <<>>

\* C12: leaving the popup unpins it and sets the hovered year to null in
\* that same step; no timer is scheduled, fired or cancelled by it.
C12_PopupLeaveClearsAtOnce ==
    [][handlePopupMouseLeave
          => /\ isPopupHovered' = FALSE
             /\ hoverYear' = NULL
             /\ UNCHANGED <<closeTimeoutRef, timers>>]_vars

\* C12 witness: the popup was pinned with a close timer of a pinned leave
\* of the bar still pending (it would have kept the hover), and the popup
\* is closed and unpinned all the same.
C12_Witness ==
    /\ hoverYear = NULL
    /\ hoverMonth # NULL
    /\ ~isPopupHovered
    /\ \E t \in timers : t.isPopupHovered

\* C13: from every reachable state a pointer press outside the container
\* is handled and sets the hovered year to null (the popup is closed); a
\* press inside the container leaves the hover state unchanged.
C13_OutsidePressClosesPopup ==
    /\ [](ENABLED handleClickOutside(FALSE))
    /\ [][(handleClickOutside(FALSE) => hoverYear' = NULL)
            /\ (handleClickOutside(TRUE) => UNCHANGED hover)]_vars

\* C13 witness: the popup was opened and pinned, and is closed while still
\* pinned and with no timer left that could have closed it.
C13_Witness ==
    /\ hoverYear = NULL
    /\ hoverMonth # NULL
    /\ isPopupHovered
    /\ closeTimeoutRef = NULL
    /\ timers = {}

\* C14: while the popup is pinned, a pointer move over the bar leaves the
\* hovered year, the hovered month and the popup position unchanged.
C14_PinnedMoveKeepsHover ==
    [][(BarMouseMoveStep /\ isPopupHovered)
          => UNCHANGED <<hoverYear, hoverMonth, hoverPosition>>]_vars

\* C14 witness: the popup is pinned and open, and a close timer scheduled
\* while it was pinned was cancelled by a move over the bar: the ref is
\* reset and no timer is pending.
C14_Witness ==
    /\ isPopupHovered
    /\ PopupOpen
    /\ closeTimeoutRef = NULL
    /\ timers = {}

\* C15: when month m of the hovered year was selected in the last step,
\* emitting the date d, selecting m again is possible and every such
\* selection emits d again: a selection equal to the previous emission is
\* not suppressed, so k selections in a row make k equal emissions.
C15_RepeatedSelectionEmitsAgain ==
    (PopupOpen /\ clicked # NULL /\ emitted # <<>>) =>
        /\ emitted = <<SelectedDate(clicked)>>
        /\ ENABLED (MonthButtonClick(clicked) /\ emitted' = emitted)
        /\ ~ENABLED (MonthButtonClick(clicked) /\ emitted' # emitted)

\* C15 witness: an enabled month was selected and its date emitted.
C15_Witness ==
    /\ PopupOpen
    /\ clicked # NULL
    /\ ButtonClickable(hoverYear, clicked)
    /\ emitted = <<SelectedDate(clicked)>>

\* C16: with a range of no year or of exactly one year, every pointer
\* position over the bar maps to a well-defined year: after a move the
\* year index of the sample is not negative, the hovered year is a year
\* (not undefined) and the hovered month is a month 0..11 (not NaN).
C16_DegenerateRangeWellDefined ==
    (Len(years) <= 1 /\ hoverMonth # NULL) =>
        /\ ClampedIndex(HoverOffset, Len(years)) >= 0
        /\ hoverYear # UNDEFINED
        /\ hoverMonth \in Months

\* C11: in either variant, a step that calls onChange(null) is a click on
\* Clear of the grid: the timeline never emits null, and in the grid no
\* day activation and no navigation does (such a step activates no cell,
\* keeps the visible month, and clears a value that was set).
C11_NullOnlyFromClear ==
    [][(\E i \in DOMAIN emitted' : emitted'[i] = NullDate)
          => /\ viewDate # NullDate
             /\ ClearClick
             /\ activated' = NullDate
             /\ viewDate' = viewDate
             /\ value # NullDate]_vars

\* C11 witness: Clear was clicked in the grid: null was emitted and the
\* host's value is null.
C11_Witness ==
    /\ viewDate # NullDate
    /\ emitted = <<NullDate>>
    /\ value = NullDate

\* `date` is a calendar day within [minDate, maxDate], the bounds taken as
\* calendar days (TimeValue counts days and leaves out the time of day).
DayInBounds(date) ==
    /\ minDate # UndefinedDate => TimeValue(date) >= TimeValue(minDate)
    /\ maxDate # UndefinedDate => TimeValue(date) <= TimeValue(maxDate)

\* C17: the activation of a day cell (click, Enter or Space) emits
\* onChange with exactly that date if the widget is not disabled and the
\* day is not outside [minDate, maxDate]; otherwise it emits nothing and
\* changes no state.
C17_DayActivation ==
    [][activated' # NullDate
          => IF ~disabled /\ DayInBounds(activated')
             THEN emitted' = <<activated'>>
             ELSE emitted' = <<>> /\ UNCHANGED <<value, viewDate>>]_vars

\* C18: the bounds are inclusive at day granularity: when the calendar day
\* of minDate or of maxDate is activated in a grid that is not disabled,
\* it is emitted, whatever time of day minDate and maxDate carry.
C18_BoundsInclusiveByDay ==
    (/\ activated # NullDate
     /\ ~disabled
     /\ \/ minDate # UndefinedDate /\ TimeValue(activated) = TimeValue(minDate)
        \/ maxDate # UndefinedDate /\ TimeValue(activated) = TimeValue(maxDate))
        => emitted = <<activated>>

\* The days of each month of a common year.
MonthLengths == <<31, 28, 31, 30, 31, 30, 31, 31, 30, 31, 30, 31>>

\* The calendar's number of days of month m (0..11) of year y.
DaysOfMonth(y, m) ==
    IF m = 1 /\ IsLeapYear(y) THEN 29 ELSE MonthLengths[m + 1]

\* The calendar's weekday (0 is Sunday) of day d of month m (0..11) of
\* year y, by Sakamoto's congruence.
Weekday(y, m, d) ==
    LET t == <<0, 3, 2, 5, 0, 3, 5, 1, 4, 6, 2, 4>>
        yy == IF m < 2 THEN y - 1 ELSE y
    IN  (yy + (yy \div 4) - (yy \div 100) + (yy \div 400) + t[m + 1] + d) % 7

\* C19: the cell list of the visible month starts with exactly
\* (firstWeekday - firstDayOfWeek + 7) mod 7 blank cells, followed by the
\* days 1..daysInMonth in increasing order, each once, followed by fewer
\* than 7 blank cells that make the cell count a multiple of 7; July 2024
\* with firstDayOfWeek = 1 has no leading blank.
C19_CalendarLayout ==
    /\ viewDate # NullDate =>
          LET days == calendarDays
              lead == (Weekday(viewYear, viewMonth, 1) - firstDayOfWeek + 7) % 7
              n == DaysOfMonth(viewYear, viewMonth)
          IN  /\ Len(days) >= lead + n
              /\ \A i \in 1..lead : days[i] = NullDate
              /\ \A d \in 1..n :
                    days[lead + d]
                      = [year |-> viewYear, month |-> viewMonth, day |-> d]
              /\ \A i \in (lead + n + 1)..Len(days) : days[i] = NullDate
              /\ Len(days) % 7 = 0
              /\ Len(days) - (lead + n) < 7
    /\ CalendarDaysOf(2024, 6, 1)[1] = [year |-> 2024, month |-> 6, day |-> 1]

\* C19 witness: July 2024 is visible with firstDayOfWeek = 1 and its first
\* cell is July 1.
C19_Witness ==
    /\ viewDate # NullDate
    /\ viewYear = 2024 /\ viewMonth = 6
    /\ firstDayOfWeek = 1
    /\ calendarDays[1] = [year |-> 2024, month |-> 6, day |-> 1]

\* The steps of C20: what each navigation step does to the visible
\* (year, month).
C20_NavigationSteps ==
    /\ goToNextMonth =>
          MonthNumber(viewYear', viewMonth')
            = MonthNumber(viewYear, viewMonth) + 1
    /\ goToPreviousMonth =>
          MonthNumber(viewYear', viewMonth')
            = MonthNumber(viewYear, viewMonth) - 1
    /\ goToNextYear =>
          (viewYear' = viewYear + 1 /\ viewMonth' = viewMonth)
    /\ goToPreviousYear =>
          (viewYear' = viewYear - 1 /\ viewMonth' = viewMonth)

\* The round trips of C20, from the visible month: a month 0..11 is
\* visible, next month then previous month restores it, and twelve next
\* months lead where one next year leads.
C20_NavigationRoundTrips ==
    LET next == NewDate(viewYear, viewMonth + 1, 1)
        back == NewDate(next.year, next.month - 1, 1)
    IN  /\ viewMonth \in Months
        /\ back.year = viewYear /\ back.month = viewMonth
        /\ NextMonths(viewDate, 12) = NewDate(viewYear + 1, viewMonth, 1)

\* C20: previous/next month change the visible (year, month) by exactly
\* one month, the year rolling over at January/December; previous/next
\* year change the year by one and keep the month; hence next month then
\* previous month restores the visible (year, month), and twelve next
\* months equal one next year.
C20_Navigation ==
    /\ [][C20_NavigationSteps]_vars
    /\ [](viewDate # NullDate => C20_NavigationRoundTrips)

\* C20 witness: the visible month is January of the year after 2024 and
\* was reached by navigation (the grid is constructed in 2024).
C20_Witness ==
    /\ viewDate # NullDate
    /\ viewYear = 2025
    /\ viewMonth = 0

\* C21: with at most ten years every year of the (possibly reversed)
\* sequence gets a label, label k at position k / yearCount of the bar
\* (k counted from 0); with more than ten years there are exactly two
\* labels, the first and the last year of that sequence.
C21_YearLabels ==
    LET n == endDate.year - startDate.year + 1
        yearAt(k) == IF reversed THEN endDate.year - k ELSE startDate.year + k
    IN  IF n <= 10
        THEN /\ Len(yearLabels) = n
             /\ \A k \in 0..(n - 1) :
                   /\ yearLabels[k + 1].year = yearAt(k)
                   /\ yearLabels[k + 1].position.num * n
                         = 100 * k * yearLabels[k + 1].position.den
        ELSE /\ Len(yearLabels) = 2
             /\ yearLabels[1].year = yearAt(0)
             /\ yearLabels[2].year = yearAt(n - 1)
             /\ DOMAIN yearLabels[1] = {"year"}
             /\ DOMAIN yearLabels[2] = {"year"}

\* C21 witness: the pointer is over the first labelled year of a reversed
\* range of eleven years, the last year of the range.
C21_Witness ==
    /\ Len(years) = 11
    /\ reversed
    /\ Len(yearLabels) = 2
    /\ hoverYear = yearLabels[1].year
    /\ hoverYear = endDate.year

\* C21 witness of the other case: the pointer is over the last of the ten
\* labelled years of a range of ten years.
C21_WitnessAllLabelled ==
    /\ Len(years) = 10
    /\ Len(yearLabels) = 10
    /\ hoverYear = yearLabels[10].year

\* C22: the component has exactly one mousedown listener on the document
\* while it is mounted and none after its unmount, when a press on the
\* document runs no handler of the component and changes no state.
C22_OneListenerWhileMounted ==
    /\ listeners = (IF mounted THEN 1 ELSE 0)
    /\ ~mounted => \A inside \in BOOLEAN : ~ENABLED handleClickOutside(inside)
    /\ mounted => ENABLED handleClickOutside(FALSE)

\* C22 witness: the component was unmounted with its popup open, and has
\* no listener left to close it.
C22_Witness ==
    /\ ~mounted
    /\ listeners = 0
    /\ hoverYear # NULL

\* C23: a step emits at most one onChange call, and emits one only when it
\* is the activation of a month of the popup, the activation of a day of
\* the grid or a click on Clear; a pointer move or leave of the bar, the
\* pointer entering or leaving the popup, a timer firing, a press outside
\* and a month or year navigation of the grid emit none.
C23_OnlyActivationsEmit ==
    [][/\ Len(emitted') <= 1
       /\ (emitted' # <<>>)
             => \/ clicked' # NULL
                \/ activated' # NullDate
                \/ (value # NullDate /\ value' = NullDate)
       /\ (\/ hover' # hover
           \/ timers' # timers
           \/ closeTimeoutRef' # closeTimeoutRef
           \/ viewDate' # viewDate) => (emitted' = <<>>)
       /\ (\/ handleBarMouseLeave
           \/ handlePopupMouseEnter
           \/ handlePopupMouseLeave
           \/ handleClickOutside(FALSE)
           \/ goToPreviousMonth
           \/ goToNextMonth
           \/ goToPreviousYear
           \/ goToNextYear) => (emitted' = <<>>)]_vars

\* C23 witness: the pointer has left the bar with the popup open and a
\* close is pending, nothing emitted.
C23_Witness ==
    /\ hoverYear # NULL
    /\ timers # {}
    /\ closeTimeoutRef # NULL
    /\ emitted = <<>>
    /\ clicked = NULL

\* C23 witness of the grid: the view was navigated to another month after
\* a day was chosen, nothing emitted.
C23_WitnessNavigation ==
    /\ viewDate # NullDate
    /\ value # NullDate
    /\ MonthNumber(viewYear, viewMonth) # MonthNumber(value.year, value.month)
    /\ emitted = <<>>

\* C24: whenever the popup is pinned (isPopupHovered) it is open (hoverYear
\* is a year): no timer firing and no press outside closes the popup and
\* leaves the flag set.
C24_PinnedImpliesOpen == isPopupHovered => hoverYear # NULL

\* C25: in every reachable state with the popup closed, a pointer move over
\* the bar opens the popup on the year under the pointer: there is no
\* state in which the hover of the bar is ignored.
C25_ClosedPopupOpensOnMove ==
    (mounted /\ hoverYear = NULL) =>
        \A offset \in SampledOffsets :
            LET n == Len(years)
                r == Max(0, Min(BarLength, offset))
                i == CHOOSE i \in 0..(n - 1) :
                        /\ i * BarLength <= r * n
                        /\ r * n < (i + 1) * BarLength \/ i = n - 1
            IN  ENABLED (/\ handleBarMouseMove(offset)
                         /\ hoverYear' = years[i + 1])

\* C26: after the unmount no close timer is pending, so that no timer
\* callback runs after it: every timer a leave of the bar has scheduled
\* has fired or been cancelled when the unmount cleanup has run.
C26_NoTimerAfterUnmount == ~mounted => timers = {}

\* C27: with startDate <= endDate every date the timeline emits is the
\* first day of a month, of a year of startYear..endYear, and of a month
\* that is not before startDate's month nor after endDate's month.
C27_EmittedDateInRange ==
    \A k \in DOMAIN emitted :
        /\ emitted[k] # NullDate
        /\ emitted[k].day = 1
        /\ emitted[k].month \in Months
        /\ emitted[k].year \in startDate.year..endDate.year
        /\ MonthNumber(emitted[k].year, emitted[k].month)
              >= MonthNumber(startDate.year, startDate.month)
        /\ MonthNumber(emitted[k].year, emitted[k].month)
              <= MonthNumber(endDate.year, endDate.month)

\* C27 witness: the month of endDate was emitted, the days of startDate and
\* endDate not the first, while later months of the year were disabled.
C27_Witness ==
    /\ TimeValue(startDate) <= TimeValue(endDate)
    /\ endDate.day # 1
    /\ endDate.month < 11
    /\ emitted = <<[year |-> endDate.year, month |-> endDate.month,
                    day |-> 1]>>

C29_MonthNumberAt(offset) ==
    MonthNumber(ArrayGet(years, ClampedIndex(offset, Len(years))),
                MonthIndex(offset, Len(years), reversed))

\* C29: the month number year * 12 + month a pointer sample maps to never
\* decreases as the coordinate grows when reversed is false and never
\* increases when reversed is true, also from one year's segment to the
\* next; the hover state of an open popup is the one of its sample.
C29_MappingMonotone ==
    /\ \A a, b \in Offsets :
          a <= b =>
             IF reversed
             THEN C29_MonthNumberAt(a) >= C29_MonthNumberAt(b)
             ELSE C29_MonthNumberAt(a) <= C29_MonthNumberAt(b)
    /\ PopupOpen =>
          MonthNumber(hoverYear, hoverMonth) = C29_MonthNumberAt(HoverOffset)

\* C29 witness: the pointer at the first pixel of the second segment of a
\* reversed range: December of the year before the last.
C29_Witness ==
    /\ reversed
    /\ Len(years) > 1
    /\ HoverOffset * Len(years) = BarLength
    /\ hoverYear = endDate.year - 1
    /\ hoverMonth = 11

\* C30: the month the open popup shows as hovered is the local hoveredMonth
\* of the panel when a month button is hovered; with none hovered it is the
\* month derived from the bar, which is handed on as null while the popup
\* is pinned, so that then no month is shown.
C30_DisplayedHoverMonth ==
    PopupOpen =>
        /\ hoveredMonth # NULL => displayedHoverMonth = hoveredMonth
        /\ (hoveredMonth = NULL /\ ~isPopupHovered)
              => displayedHoverMonth = hoverMonth
        /\ (hoveredMonth = NULL /\ isPopupHovered)
              => displayedHoverMonth = NULL

\* C30 witness: the popup is pinned with no month button hovered, and the
\* month derived from the bar is not shown.
C30_Witness ==
    /\ PopupOpen
    /\ isPopupHovered
    /\ hoveredMonth = NULL
    /\ hoverMonth \in Months
    /\ displayedHoverMonth = NULL

\* C30 witness of the local state: the button of January is hovered while
\* the month derived from the bar is another.
C30_WitnessLocal ==
    /\ PopupOpen
    /\ hoveredMonth = 0
    /\ hoverMonth \in Months \ {0}
    /\ displayedHoverMonth = 0

\* C31: the selection of a month changes no state of the timeline: the
\* hovered year, the hovered month derived from the bar, the anchor of the
\* popup, the pinned flag and the pending close timer are after the
\* selection what they were before it, and the popup stays open.
C31_SelectionKeepsState ==
    [][(clicked' # NULL /\ emitted' # <<>>)
          => /\ hoverYear' = hoverYear
             /\ hoverMonth' = hoverMonth
             /\ hoverPosition' = hoverPosition
             /\ isPopupHovered' = isPopupHovered
             /\ closeTimeoutRef' = closeTimeoutRef
             /\ timers' = timers
             /\ hoverYear' # NULL]_vars

\* C31 witness: a month of the pinned popup was selected and emitted, and
\* the popup is open and pinned.
C31_Witness ==
    /\ clicked \in Months
    /\ emitted = <<[year |-> hoverYear, month |-> clicked, day |-> 1]>>
    /\ isPopupHovered
    /\ hoverYear # NULL

\* The step is one of the four navigation actions of the grid.
C32_NavigationStep ==
    \/ goToPreviousMonth
    \/ goToNextMonth
    \/ goToPreviousYear
    \/ goToNextYear

\* C32: the visible month of the grid is at mount the month of the value,
\* when one is given, and the month of today otherwise; after that it
\* changes in the four navigation actions only: a day activation, a Clear
\* and a change of the value prop leave the visible year and month as they
\* are.
C32_ViewChangesByNavigationOnly ==
    /\ (value # NullDate
          => viewYear = value.year /\ viewMonth = value.month)
    /\ (value = NullDate
          => \E today \in Todays :
                viewYear = today.year /\ viewMonth = today.month)
    /\ [][/\ (viewYear' # viewYear \/ viewMonth' # viewMonth)
                => C32_NavigationStep
          /\ (activated' # NullDate \/ value' # value)
                => (viewYear' = viewYear /\ viewMonth' = viewMonth)]_vars

\* C32 witness: Clear has emptied the value given at mount, and the grid
\* still shows the month of that value, not the month of today.
C32_Witness ==
    /\ value = NullDate
    /\ emitted = <<NullDate>>
    /\ viewDate \in InitialValues
    /\ viewDate \notin Todays

\* C33: while the grid is disabled no user action has an effect: no step
\* emits an onChange call or changes the value or the visible month, a
\* click on a day included, and no navigation and no Clear is dispatched.
C33_DisabledGridIsInert ==
    /\ [](disabled => ~ENABLED C32_NavigationStep)
    /\ [](disabled => ~ENABLED ClearClick)
    /\ [][disabled => /\ emitted' = <<>>
                      /\ value' = value
                      /\ viewDate' = viewDate]_vars

\* C33 witness: a day within the bounds was clicked on the disabled grid,
\* which has a value to clear, and nothing was emitted.
C33_Witness ==
    /\ disabled
    /\ value # NullDate
    /\ activated # NullDate
    /\ ~isDateDisabled(activated, minDate, maxDate)
    /\ emitted = <<>>

\* C34: for every firstDayOfWeek of 0..6 the header of column c names
\* weekday (firstDayOfWeek + c) mod 7, and the day cell at index k of the
\* cell list holds a date of weekday (firstDayOfWeek + k) mod 7: a day is
\* in the column of its weekday's header.
C34_HeadersAndCellsAligned ==
    viewDate # NullDate =>
        LET days == calendarDays
            heads == weekDays
        IN  /\ Len(heads) = 7
            /\ \A c \in 0..6 : heads[c + 1] = (firstDayOfWeek + c) % 7
            /\ \A k \in 0..(Len(days) - 1) :
                  days[k + 1] # NullDate =>
                     /\ Weekday(days[k + 1].year, days[k + 1].month,
                                days[k + 1].day) = (firstDayOfWeek + k) % 7
                     /\ Weekday(days[k + 1].year, days[k + 1].month,
                                days[k + 1].day) = heads[(k % 7) + 1]

\* C34 witness: the grid was navigated to March 2024 with weeks starting
\* on Wednesday; the first day, a Friday, is in the third column.
C34_Witness ==
    /\ viewDate # NullDate
    /\ firstDayOfWeek = 3
    /\ viewYear = 2024
    /\ viewMonth = 2
    /\ calendarDays[3] = [year |-> 2024, month |-> 2, day |-> 1]
    /\ weekDays[3] = 5

\* C35: an unpinned pointer move at `offset` from the start of the bar
\* leaves the anchor of the popup at that raw offset along the axis (x when
\* horizontal, y when vertical) and 0 across it, whatever the tick of the
\* hovered year; the hovered year of an open popup is the one of the
\* sample its anchor is at.
C35_AnchorFollowsPointer ==
    /\ (mounted /\ ~isPopupHovered) =>
          \A offset \in Offsets :
              ENABLED (/\ handleBarMouseMove(offset)
                       /\ hoverPosition'
                            = (IF orientation = "horizontal"
                               THEN [x |-> offset, y |-> 0]
                               ELSE [x |-> 0, y |-> offset]))
    /\ PopupOpen =>
          /\ (orientation = "horizontal" => hoverPosition.y = 0)
          /\ (orientation = "vertical" => hoverPosition.x = 0)
          /\ HoverOffset \in Offsets
          /\ hoverYear = years[ClampedIndex(HoverOffset, Len(years)) + 1]

\* C35 witness: the popup of a vertical bar of two years is anchored five
\* pixels from the start of the bar, between the ticks of the two years.
C35_Witness ==
    /\ orientation = "vertical"
    /\ Len(years) = 2
    /\ PopupOpen
    /\ hoverPosition = [x |-> 0, y |-> 5]
    /\ 5 * Len(years) % BarLength # 0

\* C36: the bar has one tick for each year, tick i at i / yearCount of the
\* bar and drawn for year i of the (possibly reversed) sequence, and the
\* hover agrees with the ticks: a pointer exactly at the position of tick
\* i hovers the year of tick i, for every i of 0..yearCount-1.
C36_TicksAgreeWithHover ==
    LET n == endDate.year - startDate.year + 1
    IN  /\ Len(yearTicks) = n
        /\ \A i \in 0..(n - 1) :
              /\ yearTicks[i + 1].year
                    = (IF reversed THEN endDate.year - i
                       ELSE startDate.year + i)
              /\ yearTicks[i + 1].position.num * n
                    = 100 * i * yearTicks[i + 1].position.den
        /\ PopupOpen =>
              \A i \in 0..(n - 1) :
                  (HoverOffset * yearTicks[i + 1].position.den * 100
                      = yearTicks[i + 1].position.num * rectWidth)
                     => hoverYear = yearTicks[i + 1].year

====
